---- MODULE Spec2Model ----
(***************************************************************************)
(* Interview session orchestration of the InterViewDost browser client:    *)
(* ProfilePage.handleSubmit (resume ingestion + profile enrichment),       *)
(* InterviewPage.handleStartInterview (session launch), ResultsPage.load   *)
(* (summary/feedback join) and the SessionStateStore they share.           *)
(*                                                                         *)
(* One page is mounted at a time (one <Route> element).  Each invocation   *)
(* of an async handler is an entry of `ops`, suspended at an await; the    *)
(* response actions resume it and run the handler to its next await or to  *)
(* its end.  Local component state lives in one record per page and is     *)
(* re-created on every mount; setters called for an unmounted instance     *)
(* have no effect on any later instance.                                   *)
(***************************************************************************)
EXTENDS Integers, Sequences, FiniteSets, TLC

\* ---------------------------------------------------------------- bounds
\* most operations (suspended async handlers) in flight at once
MaxOps == 2
\* interview ids the backend hands out are 0..MaxId
MaxId == 1
\* most characters typed into one delimited form field
MaxLen == 4

\* ---------------------------------------------------------------- values
\* null / undefined of a string-valued field
Null == "null"
\* null of a number-valued field (interviewId, summary, feedback)
NoId == -1

Ids == 0..MaxId

NoUser == [name |-> Null, email |-> Null]
\* identities a login may install; name or email may be empty
Users == { [name |-> "A", email |-> "a@x.com"],
           [name |-> "",  email |-> "a@x.com"],
           [name |-> "A", email |-> ""] }

\* the store before authentication and after logout
EmptyStore == [user |-> NoUser, resumeSummary |-> Null, skills |-> Null]

\* JSON payload of an answer; a field an endpoint does not send is null
NoData == [resume_text |-> Null, resume_summary |-> Null, skills |-> Null,
           interview_id |-> NoId, question |-> Null,
           conversation_url |-> Null, tavus_error |-> Null]

\* what the user may type into the resume textarea
TypedTexts == {"", "typed resume"}
\* upload_resume answers: { resume_text?: string }
ExtractedTexts == { [NoData EXCEPT !.resume_text = t] : t \in {Null, "", "pdf resume"} }

\* enrichment artifacts the backend may return
Artifacts == { [NoData EXCEPT !.resume_summary = "S1", !.skills = "Go"],
               [NoData EXCEPT !.resume_summary = "S2", !.skills = "Go,Rust"] }

\* start answers: interview_id, question, conversation_url, tavus_error
StartAnswers ==
    { [NoData EXCEPT !.interview_id = i, !.question = IF i = 0 THEN "Q0" ELSE "Q1",
                     !.conversation_url = u, !.tavus_error = t] :
        i \in Ids, u \in {Null, "https://tavus/c1"}, t \in {Null, "provider down"} }

\* summary / feedback answers for interview id
ResultAnswer(id) == [NoData EXCEPT !.interview_id = id]

\* HTTP answers: ok with a payload, non-success status with a body text, or a
\* transport failure (fetch rejects)
Ok(d) == [kind |-> "ok", status |-> 200, body |-> "", data |-> d]
NoResp == [kind |-> "none", status |-> 0, body |-> "", data |-> NoData]
HttpFailure(status, body) == [kind |-> "http", status |-> status, body |-> body, data |-> NoData]
HttpFailures == { HttpFailure(500, "boom"), HttpFailure(404, "") }
NetFailure == [kind |-> "net", status |-> 0, body |-> "", data |-> NoData]
Failures == HttpFailures \cup {NetFailure}
Answers(payloads) == { Ok(d) : d \in payloads } \cup Failures

\* ---------------------------------------------------------------- messages
NotAuthProfileMsg == "You must be logged in with a valid user."
NotAuthInterviewMsg == "You must be logged in and have a valid profile."
ExtractionMsg == "Failed to process resume PDF"
\* message of the TypeError a rejected fetch() carries
FetchMsg == "Failed to fetch"

\* `Request failed with ${res.status}`
RequestFailedMsg(status) ==
    CASE status = 404 -> "Request failed with 404"
      [] status = 500 -> "Request failed with 500"
      [] OTHER -> "Request failed with ?"

\* JavaScript truthiness of a string | null and of a number | null
Truthy(s) == s /= Null /\ s /= ""
TruthyNum(n) == n /= NoId /\ n /= 0

\* apiPost / apiGet on a failing answer: throw new Error(text || generic)
ApiError(resp) ==
    IF resp.kind = "http"
    THEN (IF Truthy(resp.body) THEN resp.body ELSE RequestFailedMsg(resp.status))
    ELSE FetchMsg

\* upload_resume on a failing answer: if (!resp.ok) throw new Error(fixed)
UploadError(resp) ==
    IF resp.kind = "http" THEN ExtractionMsg ELSE FetchMsg

\* ---------------------------------------------------------------- state
VARIABLES
    store,             \* SessionStateStore: AuthContext state {user, resumeSummary, skills}
    route,             \* the mounted page: "login", "profile", "interview", "results"
    interviewIdParam,  \* useParams().interviewId of /results/:interviewId (NoId elsewhere)
    profile,           \* ProfilePage useState fields
    interview,         \* InterviewPage useState fields
    results,           \* ResultsPage useState fields
    ops,               \* suspended async handler invocations, oldest first
    finished,          \* the handler invocation that ended in the last step, if any
    derive             \* one delimited form field on its way into the enrich payload

vars == <<store, route, interviewIdParam, profile, interview, results, ops, finished, derive>>

ProfileInit == [resumeText |-> "", resumeFile |-> FALSE, loading |-> FALSE, error |-> Null]
InterviewInit == [interviewId |-> NoId, question |-> Null, conversationUrl |-> Null,
                  tavusError |-> Null, loading |-> FALSE, error |-> Null]
ResultsInit == [summary |-> NoId, feedback |-> NoId, loading |-> FALSE, error |-> Null]

\* one invocation of handleSubmit ("enrich"), handleStartInterview ("start") or
\* load ("load"): its closure (state, resumeText, param), its locals
\* (finalResumeText as text, the two fetches of Promise.all) and its position
\* `wrote` lists what the invocation has changed so far, its page's loading
\* and error flags aside
BlankOp ==
    [kind |-> "none", pc |-> "none", mounted |-> FALSE,
     state |-> EmptyStore, resumeText |-> "", resumeFile |-> FALSE,
     text |-> "", extracted |-> FALSE,
     param |-> NoId, summary |-> "none", feedback |-> "none",
     wrote |-> {}]

NewOp(kind, pc) ==
    [BlankOp EXCEPT !.kind = kind, !.pc = pc, !.mounted = TRUE]

\* how an invocation ended: "ok", "not_authenticated", "extraction_failed"
\* (upload_resume answered non-success) or "failed" (any other throw), with
\* the answer that decided it and the message handed to setError
NoFinished == [op |-> BlankOp, outcome |-> "none", resp |-> NoResp, err |-> Null]
Ended(op, outcome, resp, err) == [op |-> op, outcome |-> outcome, resp |-> resp, err |-> err]

\* no delimited field under derivation
NoDerive == [field |-> "none", text |-> <<>>, pc |-> "idle", list |-> <<>>, again |-> <<>>]

PagesInit ==
    /\ store = EmptyStore
    /\ route = "login"
    /\ interviewIdParam = NoId
    /\ profile = ProfileInit
    /\ interview = InterviewInit
    /\ results = ResultsInit
    /\ ops = <<>>
    /\ finished = NoFinished

Init == PagesInit /\ derive = NoDerive

\* ---------------------------------------------------------------- helpers
Remove(s, i) == SubSeq(s, 1, i - 1) \o SubSeq(s, i + 1, Len(s))

\* the instances of the mounted page are unmounted: their setters become no-ops
Unmount(os) == [i \in DOMAIN os |-> [os[i] EXCEPT !.mounted = FALSE]]

\* fields of a page record that differ, loading and error aside
Changed(p, q) == { f \in DOMAIN p \ {"loading", "error"} : p[f] /= q[f] }

\* an operation is abandoned when its component instance is unmounted, or, for
\* a load, when the page has moved on to another interviewId
Abandoned(op) == ~op.mounted \/ (op.kind = "load" /\ op.param /= interviewIdParam)

\* ---------------------------------------------------------------- ProfilePage
NotAuthenticatedNullOnly(user) == user = NoUser

\* if (!user || !user.email || !user.name)
NotAuthenticated(user) == user = NoUser \/ ~Truthy(user.email) \/ ~Truthy(user.name)

NeedsExtractionFileOnly(resumeFile, resumeText) == resumeFile

\* if (resumeFile && !resumeText)
NeedsExtraction(resumeFile, resumeText) == resumeFile /\ ~Truthy(resumeText)

UploadFailedIgnoringStatus(resp) == resp.kind = "net"

\* if (!resp.ok) throw ...; a rejected fetch throws as well
UploadFailed(resp) == resp.kind /= "ok"

\* finalResumeText = data.resume_text || ""
FinalResumeText(data) == IF Truthy(data.resume_text) THEN data.resume_text ELSE ""

\* setResumeText(finalResumeText)
ProfileAfterUpload(p, text) == [p EXCEPT !.resumeText = text]

AfterFailureStillLoading(p, msg) == [p EXCEPT !.error = msg]

\* catch: setError(err.message); finally: setLoading(false)
AfterFailure(p, msg) == [p EXCEPT !.error = msg, !.loading = FALSE]

StoreAfterEnrichUnconditional(resp, state, cur) ==
    [state EXCEPT !.resumeSummary = resp.data.resume_summary, !.skills = resp.data.skills]

\* setState({...state, resumeSummary, skills}) runs only when apiPost resolved;
\* `state` is the store value the submitting render captured
StoreAfterEnrich(resp, state, cur) ==
    IF resp.kind = "ok"
    THEN [state EXCEPT !.resumeSummary = resp.data.resume_summary,
                       !.skills = resp.data.skills]
    ELSE cur

\* ---- delimited form fields of the payload (strings are sequences of characters)
\* techStack (comma), workExperiences, projects, companiesWorked (newline)
Fields == {"tech_stack", "work_experiences", "projects", "companies_worked"}
Delimiter(field) == IF field = "tech_stack" THEN "," ELSE "\n"

\* characters a user can type; String.prototype.trim strips spaces and line
\* terminators alike
Chars == {"a", "b", " ", ",", "\n"}
WhiteSpace == {" ", "\n"}
Texts == UNION { [1..n -> Chars] : n \in 0..MaxLen }

\* s.split(d): the pieces between the occurrences of d, at least one piece
RECURSIVE Split(_, _)
Split(s, d) ==
    LET at == { i \in 1..Len(s) : s[i] = d } IN
    IF at = {} THEN << s >>
    ELSE LET k == CHOOSE i \in at : \A j \in at : i <= j
         IN << SubSeq(s, 1, k - 1) >> \o Split(SubSeq(s, k + 1, Len(s)), d)

RECURSIVE TrimStart(_)
TrimStart(s) == IF s /= <<>> /\ Head(s) \in WhiteSpace THEN TrimStart(Tail(s)) ELSE s

RECURSIVE TrimEnd(_)
TrimEnd(s) ==
    IF s /= <<>> /\ s[Len(s)] \in WhiteSpace THEN TrimEnd(SubSeq(s, 1, Len(s) - 1)) ELSE s

TrimStartOnly(s) == TrimStart(s)

\* s.trim()
Trim(s) == TrimEnd(TrimStart(s))

\* Boolean(s) of a string
NonEmpty(s) == s /= <<>>

\* .split(d).map((s) => s.trim()).filter(Boolean)
Derive(s, d) ==
    LET pieces == Split(s, d) IN
    SelectSeq([i \in DOMAIN pieces |-> Trim(pieces[i])], NonEmpty)

\* the request an invocation of handleSubmit is waiting on: upload_resume with
\* the file, or enrich with resume_text: finalResumeText || undefined
Request(op) ==
    CASE op.pc = "upload" -> [path |-> "/api/profile/upload_resume", resume_text |-> Null]
      [] op.pc = "enrich" -> [path |-> "/api/profile/enrich",
                              resume_text |-> IF Truthy(op.text) THEN op.text ELSE Null]
      [] op.pc = "start"  -> [path |-> "/api/interview/start", resume_text |-> Null]
      [] OTHER -> [path |-> "none", resume_text |-> Null]

\* the user edits the resume textarea / picks or clears a file
SetResumeText(t) ==
    /\ route = "profile"
    /\ profile.resumeText /= t
    /\ profile' = [profile EXCEPT !.resumeText = t]
    /\ finished' = NoFinished
    /\ UNCHANGED <<store, route, interviewIdParam, interview, results, ops>>
    /\ UNCHANGED derive

SetResumeFile(f) ==
    /\ route = "profile"
    /\ profile.resumeFile /= f
    /\ profile' = [profile EXCEPT !.resumeFile = f]
    /\ finished' = NoFinished
    /\ UNCHANGED <<store, route, interviewIdParam, interview, results, ops>>
    /\ UNCHANGED derive

\* handleSubmit up to its first await; the button is disabled while loading
HandleSubmit ==
    /\ route = "profile"
    /\ ~profile.loading
    /\ IF NotAuthenticated(store.user)
       THEN /\ profile' = [profile EXCEPT !.error = NotAuthProfileMsg]
            /\ finished' = Ended([NewOp("enrich", "guard") EXCEPT
                                     !.state = store,
                                     !.resumeText = profile.resumeText,
                                     !.resumeFile = profile.resumeFile,
                                     !.text = profile.resumeText,
                                     !.wrote = Changed(profile, profile')],
                                 "not_authenticated", NoResp, NotAuthProfileMsg)
            /\ ops' = ops
       ELSE /\ Len(ops) < MaxOps
            /\ profile' = [profile EXCEPT !.loading = TRUE, !.error = Null]
            /\ ops' = Append(ops,
                   [NewOp("enrich",
                          IF NeedsExtraction(profile.resumeFile, profile.resumeText)
                          THEN "upload" ELSE "enrich") EXCEPT
                       !.state = store,
                       !.resumeText = profile.resumeText,
                       !.resumeFile = profile.resumeFile,
                       !.text = profile.resumeText,
                       !.wrote = Changed(profile, profile')])
            /\ finished' = NoFinished
    /\ UNCHANGED <<store, route, interviewIdParam, interview, results>>
    /\ UNCHANGED derive

\* the upload_resume fetch settles: handleSubmit runs on to the enrich await,
\* or throws into catch/finally
UploadResponse(i, resp) ==
    /\ i \in DOMAIN ops
    /\ ops[i].pc = "upload"
    /\ LET op == ops[i] IN
       IF UploadFailed(resp)
       THEN LET msg == UploadError(resp)
                p == IF op.mounted THEN AfterFailure(profile, msg) ELSE profile
            IN /\ profile' = p
               /\ ops' = Remove(ops, i)
               /\ finished' = Ended([op EXCEPT !.wrote = @ \cup Changed(profile, p)],
                                    IF resp.kind = "http" THEN "extraction_failed" ELSE "failed",
                                    resp, msg)
       ELSE LET text == FinalResumeText(resp.data)
                p == IF op.mounted THEN ProfileAfterUpload(profile, text) ELSE profile
            IN /\ profile' = p
               /\ ops' = [ops EXCEPT ![i].pc = "enrich", ![i].text = text,
                                     ![i].extracted = TRUE,
                                     ![i].wrote = @ \cup Changed(profile, p)]
               /\ finished' = NoFinished
    /\ UNCHANGED <<store, route, interviewIdParam, interview, results>>
    /\ UNCHANGED derive

\* the enrich apiPost settles: setState + navigate("/interview"), or catch;
\* then finally.  navigate replaces whatever page is mounted by the interview
\* page (a page already at /interview stays mounted).
EnrichResponse(i, resp) ==
    /\ i \in DOMAIN ops
    /\ ops[i].pc = "enrich"
    /\ LET op == ops[i]
           st == StoreAfterEnrich(resp, op.state, store)
           w  == IF st /= store THEN {"store"} ELSE {}
       IN /\ store' = st
          /\ IF resp.kind = "ok"
             THEN /\ route' = "interview"
                  /\ interviewIdParam' = NoId
                  /\ profile' = ProfileInit
                  /\ results' = ResultsInit
                  /\ interview' = IF route = "interview" THEN interview ELSE InterviewInit
                  /\ ops' = IF route = "interview" THEN Remove(ops, i)
                                                   ELSE Unmount(Remove(ops, i))
                  /\ finished' = Ended([op EXCEPT !.wrote = @ \cup w \cup
                                           (IF route /= "interview" THEN {"route"} ELSE {})],
                                       "ok", resp, Null)
             ELSE LET msg == ApiError(resp)
                      p == IF op.mounted THEN AfterFailure(profile, msg) ELSE profile
                  IN /\ profile' = p
                     /\ ops' = Remove(ops, i)
                     /\ finished' = Ended([op EXCEPT !.wrote = @ \cup w \cup Changed(profile, p)],
                                          "failed", resp, msg)
                     /\ UNCHANGED <<route, interviewIdParam, interview, results>>
    /\ UNCHANGED derive

\* {error && <p>{error}</p>}
ProfileErrorShown == route = "profile" /\ Truthy(profile.error)

\* ---------------------------------------------------------------- InterviewPage
InterviewAfterStartKeepingUrl(iv, data) ==
    [iv EXCEPT !.interviewId = data.interview_id,
               !.question = data.question,
               !.conversationUrl = IF data.conversation_url = Null THEN @
                                   ELSE data.conversation_url,
               !.tavusError = data.tavus_error,
               !.loading = FALSE]

\* setInterviewId, setQuestion, setConversationUrl(?? null), setTavusError(?? null);
\* finally: setLoading(false)
InterviewAfterStart(iv, data) ==
    [iv EXCEPT !.interviewId = data.interview_id,
               !.question = data.question,
               !.conversationUrl = data.conversation_url,
               !.tavusError = data.tavus_error,
               !.loading = FALSE]

\* handleStartInterview up to its await; the button is disabled while loading
HandleStartInterview ==
    /\ route = "interview"
    /\ ~interview.loading
    /\ IF NotAuthenticated(store.user)
       THEN /\ interview' = [interview EXCEPT !.error = NotAuthInterviewMsg]
            /\ finished' = Ended([NewOp("start", "guard") EXCEPT
                                     !.wrote = Changed(interview, interview')],
                                 "not_authenticated", NoResp, NotAuthInterviewMsg)
            /\ ops' = ops
       ELSE /\ Len(ops) < MaxOps
            /\ interview' = [interview EXCEPT !.loading = TRUE, !.error = Null,
                                              !.tavusError = Null]
            /\ ops' = Append(ops, [NewOp("start", "start") EXCEPT
                                     !.wrote = Changed(interview, interview')])
            /\ finished' = NoFinished
    /\ UNCHANGED <<store, route, interviewIdParam, profile, results>>
    /\ UNCHANGED derive

\* the start apiPost settles
StartResponse(i, resp) ==
    /\ i \in DOMAIN ops
    /\ ops[i].pc = "start"
    /\ LET op == ops[i]
           msg == IF resp.kind = "ok" THEN Null ELSE ApiError(resp)
           iv == IF ~op.mounted THEN interview
                 ELSE IF resp.kind = "ok" THEN InterviewAfterStart(interview, resp.data)
                 ELSE AfterFailure(interview, msg)
       IN /\ interview' = iv
          /\ ops' = Remove(ops, i)
          /\ finished' = Ended([op EXCEPT !.wrote = @ \cup Changed(interview, iv)],
                               IF resp.kind = "ok" THEN "ok" ELSE "failed", resp, msg)
    /\ UNCHANGED <<store, route, interviewIdParam, profile, results>>
    /\ UNCHANGED derive

\* the page's JSX reads tavusError, conversationUrl, question and interviewId;
\* no element of it reads `error`
InterviewErrorShown == FALSE

\* {interviewId && <button onClick={() => navigate(`/results/${interviewId}`)}>}
ResultsNavEnabled == route = "interview" /\ TruthyNum(interview.interviewId)

\* {question && <p>{question.text}</p>}
QuestionShown == route = "interview" /\ interview.question /= Null

\* ---------------------------------------------------------------- ResultsPage
\* load(): setLoading(true); setError(null)
StartLoad(r) == [r EXCEPT !.loading = TRUE, !.error = Null]

LoadOp(id, before) ==
    [NewOp("load", "load") EXCEPT !.param = id, !.summary = "pending",
                                  !.feedback = "pending",
                                  !.wrote = Changed(before, StartLoad(before))]

\* both fetches resolved: setSummary; setFeedback; finally setLoading(false)
ResultsAfterLoad(r, id) ==
    [r EXCEPT !.summary = id, !.feedback = id, !.loading = FALSE]

ResultsAfterFailurePartial(r, op, msg) ==
    [r EXCEPT !.error = msg, !.loading = FALSE,
              !.summary = IF op.summary = "ok" THEN op.param ELSE @]

\* Promise.all rejected: catch setError(err.message); finally setLoading(false)
ResultsAfterFailure(r, op, msg) == [r EXCEPT !.error = msg, !.loading = FALSE]

\* one of the two apiGet calls of a load settles.  Promise.all resolves when
\* the second one resolves and rejects with the first rejection; once it has
\* rejected, the other fetch's outcome is dropped.
LoadResponse(i, which, resp) ==
    /\ i \in DOMAIN ops
    /\ ops[i].pc = "load"
    /\ ops[i][which] = "pending"
    /\ LET op == ops[i]
           other == IF which = "summary" THEN op.feedback ELSE op.summary
       IN IF resp.kind = "ok"
          THEN IF other = "ok"
               THEN LET r == IF op.mounted THEN ResultsAfterLoad(results, resp.data.interview_id)
                                           ELSE results
                    IN /\ results' = r
                       /\ ops' = Remove(ops, i)
                       /\ finished' = Ended([op EXCEPT ![which] = "ok",
                                                       !.wrote = @ \cup Changed(results, r)],
                                            "ok", resp, Null)
               ELSE /\ ops' = [ops EXCEPT ![i][which] = "ok"]
                    /\ finished' = NoFinished
                    /\ UNCHANGED results
          ELSE LET msg == ApiError(resp)
                   r == IF op.mounted THEN ResultsAfterFailure(results, op, msg) ELSE results
               IN /\ results' = r
                  /\ ops' = Remove(ops, i)
                  /\ finished' = Ended([op EXCEPT ![which] = "fail",
                                                  !.wrote = @ \cup Changed(results, r)],
                                       "failed", resp, msg)
    /\ UNCHANGED <<store, route, interviewIdParam, profile, interview>>
    /\ UNCHANGED derive

SummaryResponse(i, resp) == LoadResponse(i, "summary", resp)
FeedbackResponse(i, resp) == LoadResponse(i, "feedback", resp)

\* {summary && ...}, {feedback && ...} nested in it, {error && ...}
SummaryShown == route = "results" /\ results.summary /= NoId
FeedbackShown == SummaryShown /\ results.feedback /= NoId
ResultsErrorShown == route = "results" /\ Truthy(results.error)

\* ---------------------------------------------------------------- routing
\* the router replaces the mounted page by page r; InterviewPage's effect
\* redirects to /login when there is no user; ResultsPage's effect starts a
\* load for the id in the path
Mount(r, id) ==
    LET target == IF r = "interview" /\ store.user = NoUser THEN "login" ELSE r IN
    /\ target = "results" => Len(ops) < MaxOps
    /\ route' = target
    /\ interviewIdParam' = IF target = "results" THEN id ELSE NoId
    /\ profile' = ProfileInit
    /\ interview' = InterviewInit
    /\ results' = IF target = "results" THEN StartLoad(ResultsInit) ELSE ResultsInit
    /\ ops' = IF target = "results" THEN Append(Unmount(ops), LoadOp(id, ResultsInit))
                                    ELSE Unmount(ops)
    /\ finished' = NoFinished
    /\ UNCHANGED store
    /\ UNCHANGED derive

\* the user moves to another location (address bar, history, links)
Navigate(r, id) ==
    /\ r /= "results" => id = NoId
    /\ r = "results" => id \in Ids
    /\ <<r, id>> /= <<route, interviewIdParam>>
    /\ IF r = "results" /\ route = "results"
       THEN \* same <Route> element: the instance stays, the effect runs again
            /\ Len(ops) < MaxOps
            /\ interviewIdParam' = id
            /\ results' = StartLoad(results)
            /\ ops' = Append(ops, LoadOp(id, results))
            /\ finished' = NoFinished
            /\ UNCHANGED <<store, route, profile, interview, derive>>
       ELSE /\ ~(r = "interview" /\ store.user = NoUser /\ route = "login")
            /\ Mount(r, id)

\* InterviewPage: "Edit profile", "View results"; ResultsPage: "Back to dashboard"
EditProfile == route = "interview" /\ Mount("profile", NoId)
ViewResults == ResultsNavEnabled /\ Mount("results", interview.interviewId)
BackToDashboard == route = "results" /\ Mount("interview", NoId)

\* ---------------------------------------------------------------- SessionStateStore
Login(u) ==
    /\ route = "login"
    /\ store.user /= u
    /\ store' = [EmptyStore EXCEPT !.user = u]
    /\ finished' = NoFinished
    /\ UNCHANGED <<route, interviewIdParam, profile, interview, results, ops>>
    /\ UNCHANGED derive

\* the store is cleared; a mounted InterviewPage redirects to /login
Logout ==
    /\ store /= EmptyStore
    /\ store' = EmptyStore
    /\ finished' = NoFinished
    /\ IF route = "interview"
       THEN /\ route' = "login"
            /\ interview' = InterviewInit
            /\ ops' = Unmount(ops)
            /\ UNCHANGED <<interviewIdParam, profile, results>>
       ELSE UNCHANGED <<route, interviewIdParam, profile, interview, results, ops>>
    /\ UNCHANGED derive

\* ---------------------------------------------------------------- specification
Next ==
    \/ \E u \in Users : Login(u)
    \/ Logout
    \/ \E r \in {"login", "profile", "interview"} : Navigate(r, NoId)
    \/ \E id \in Ids : Navigate("results", id)
    \/ EditProfile
    \/ ViewResults
    \/ BackToDashboard
    \/ \E t \in TypedTexts : SetResumeText(t)
    \/ \E f \in BOOLEAN : SetResumeFile(f)
    \/ HandleSubmit
    \/ \E i \in DOMAIN ops, resp \in Answers(ExtractedTexts) : UploadResponse(i, resp)
    \/ \E i \in DOMAIN ops, resp \in Answers(Artifacts) : EnrichResponse(i, resp)
    \/ HandleStartInterview
    \/ \E i \in DOMAIN ops, resp \in Answers(StartAnswers) : StartResponse(i, resp)
    \/ \E i \in DOMAIN ops : \E resp \in Answers({ResultAnswer(ops[i].param)}) :
           SummaryResponse(i, resp)
    \/ \E i \in DOMAIN ops : \E resp \in Answers({ResultAnswer(ops[i].param)}) :
           FeedbackResponse(i, resp)

Spec == Init /\ [][Next]_vars

\* ---------------------------------------------------------------- fair runs
\* the answers of the fair runs: per endpoint one payload for each shape the
\* handlers branch on, one non-success status and the transport failure
FairFailures == { HttpFailure(500, "boom"), NetFailure }
FairAnswers(payloads) == { Ok(d) : d \in payloads } \cup FairFailures
FairExtracted == { [NoData EXCEPT !.resume_text = "pdf resume"] }
FairArtifacts == { [NoData EXCEPT !.resume_summary = "S1", !.skills = "Go"] }
FairStartAnswers == { d \in StartAnswers : d.tavus_error = Null }

\* every issued network call eventually resolves or rejects: the answer of a
\* waiting handler is not withheld forever
UploadSettles == \E i \in DOMAIN ops, resp \in FairAnswers(FairExtracted) : UploadResponse(i, resp)
EnrichSettles == \E i \in DOMAIN ops, resp \in FairAnswers(FairArtifacts) : EnrichResponse(i, resp)
StartSettles == \E i \in DOMAIN ops, resp \in FairAnswers(FairStartAnswers) : StartResponse(i, resp)
SummarySettles ==
    \E i \in DOMAIN ops : \E resp \in FairAnswers({ResultAnswer(ops[i].param)}) :
        SummaryResponse(i, resp)
FeedbackSettles ==
    \E i \in DOMAIN ops : \E resp \in FairAnswers({ResultAnswer(ops[i].param)}) :
        FeedbackResponse(i, resp)

FairNext ==
    \/ \E u \in Users : Login(u)
    \/ Logout
    \/ \E r \in {"login", "profile", "interview"} : Navigate(r, NoId)
    \/ \E id \in Ids : Navigate("results", id)
    \/ EditProfile
    \/ ViewResults
    \/ BackToDashboard
    \/ \E t \in TypedTexts : SetResumeText(t)
    \/ \E f \in BOOLEAN : SetResumeFile(f)
    \/ HandleSubmit
    \/ UploadSettles
    \/ EnrichSettles
    \/ HandleStartInterview
    \/ StartSettles
    \/ SummarySettles
    \/ FeedbackSettles

FairSpec ==
    /\ Init /\ [][FairNext]_vars
    /\ WF_vars(UploadSettles) /\ WF_vars(EnrichSettles) /\ WF_vars(StartSettles)
    /\ WF_vars(SummarySettles) /\ WF_vars(FeedbackSettles)

\* ---------------------------------------------------------------- payload derivation
\* list.join(d)
RECURSIVE Join(_, _)
Join(list, d) ==
    IF list = <<>> THEN <<>>
    ELSE IF Len(list) = 1 THEN list[1]
    ELSE list[1] \o << d >> \o Join(Tail(list), d)

\* a form field holding any text of up to MaxLen characters
DeriveInit ==
    /\ PagesInit
    /\ derive \in { [NoDerive EXCEPT !.field = f, !.text = t, !.pc = "typed"] :
                        f \in Fields, t \in Texts }

\* handleSubmit builds the payload entry of the field
DerivePayload ==
    /\ derive.pc = "typed"
    /\ derive' = [derive EXCEPT !.list = Derive(derive.text, Delimiter(derive.field)),
                                !.pc = "derived"]
    /\ UNCHANGED <<store, route, interviewIdParam, profile, interview, results, ops, finished>>

\* the derived entries, joined by the field's delimiter, are entered and
\* submitted again
DeriveAgain ==
    /\ derive.pc = "derived"
    /\ derive' = [derive EXCEPT
                     !.again = Derive(Join(derive.list, Delimiter(derive.field)),
                                      Delimiter(derive.field)),
                     !.pc = "rederived"]
    /\ UNCHANGED <<store, route, interviewIdParam, profile, interview, results, ops, finished>>

DeriveNext == DerivePayload \/ DeriveAgain

DeriveSpec == DeriveInit /\ [][DeriveNext]_vars

\* ---------------------------------------------------------------- claims
PageState == <<store, route, interviewIdParam, profile, interview, results>>

\* C1: when a load of the results page ends because one of its two fetches
\* rejected, the state reached renders no summary and no feedback, only the
\* error message, whatever loads the page instance ran before.
C1_AllOrNothing ==
    (finished.op.kind = "load" /\ finished.outcome = "failed" /\ finished.op.mounted)
        => (~SummaryShown /\ ~FeedbackShown /\ ResultsErrorShown)

\* C2: the step in which an abandoned operation (its page instance unmounted,
\* or the results page moved on to another interviewId) settles changes
\* neither any page field nor the route nor SessionStateStore.
C2_StaleDiscarded ==
    [][ (finished'.outcome \in {"ok", "failed", "extraction_failed"}
           /\ Abandoned(finished'.op))
        => UNCHANGED PageState ]_vars

\* C3: at any time at most one enrich operation and at most one start
\* operation is in flight.
C3_Serialized ==
    /\ Cardinality({ i \in DOMAIN ops : ops[i].kind = "enrich" }) <= 1
    /\ Cardinality({ i \in DOMAIN ops : ops[i].kind = "start" }) <= 1

\* C4: a submit or start invoked while the store has no user, or a user with
\* an empty name or email, puts no operation (no request) in flight, sets only
\* the page's error to the not-authenticated message, and leaves loading, the
\* session fields, the route and SessionStateStore as they were.
BadIdentity(user) == user = NoUser \/ user.name = "" \/ user.email = ""
C4_AuthPrecondition ==
    [][ /\ (HandleSubmit /\ BadIdentity(store.user))
           => /\ ops' = ops
              /\ profile' = [profile EXCEPT !.error = NotAuthProfileMsg]
              /\ UNCHANGED <<store, route, interviewIdParam, interview, results>>
        /\ (HandleStartInterview /\ BadIdentity(store.user))
           => /\ ops' = ops
              /\ interview' = [interview EXCEPT !.error = NotAuthInterviewMsg]
              /\ UNCHANGED <<store, route, interviewIdParam, profile, results>>
      ]_vars
C4_Witness ==
    /\ finished.outcome = "not_authenticated"
    /\ finished.op.kind = "start"
    /\ store.user /= NoUser
    /\ interview.error = NotAuthInterviewMsg

\* C5: a submit whose typed resume text is non-empty never waits on the
\* extraction resource and never extracted, file or no file, and the
\* resume_text of its enrich request is the typed text.
C5_TypedTextPrecedence ==
    \A i \in DOMAIN ops :
        (ops[i].kind = "enrich" /\ ops[i].resumeText /= "")
            => /\ Request(ops[i]).path = "/api/profile/enrich"
               /\ Request(ops[i]).resume_text = ops[i].resumeText
               /\ ~ops[i].extracted
C5_Witness ==
    \E i \in DOMAIN ops :
        /\ ops[i].kind = "enrich"
        /\ ops[i].resumeText = "typed resume"
        /\ ops[i].resumeFile
        /\ Request(ops[i]).resume_text = "typed resume"

\* C6: when upload_resume answers a submit with a non-success status, the
\* submit ends there: it never waits on /api/profile/enrich, the store and the
\* route are unchanged, and its page shows the extraction error, not loading.
C6_ExtractionFailureStops ==
    [][ \A i \in DOMAIN ops : \A resp \in HttpFailures :
          UploadResponse(i, resp)
            => /\ ops' = Remove(ops, i)
               /\ finished'.outcome = "extraction_failed"
               /\ UNCHANGED <<store, route>>
               /\ ops[i].mounted => (profile'.error = ExtractionMsg /\ ~profile'.loading)
      ]_vars
C6_Witness ==
    /\ finished.outcome = "extraction_failed"
    /\ finished.op.mounted
    /\ finished.op.resumeFile /\ finished.op.resumeText = ""
    /\ route = "profile"
    /\ profile.error = ExtractionMsg

\* C7 as stated: a submit whose enrichment request failed has changed nothing
\* but its page's error message and loading flag.
EnrichFailed == finished.op.kind = "enrich" /\ finished.op.pc = "enrich"
                    /\ finished.outcome = "failed"
C7_EnrichFailureNoMutation == EnrichFailed => finished.op.wrote = {}

\* C7 amended: a submit whose enrichment request failed has written neither
\* SessionStateStore nor the route; apart from error and loading it has
\* changed at most the resume text field, and that only by a successful
\* extraction, which set it to the extracted text.
C7_EnrichFailureFrame ==
    EnrichFailed
        => /\ finished.op.wrote \subseteq {"resumeText"}
           /\ "resumeText" \in finished.op.wrote => finished.op.extracted
C7_Witness ==
    /\ EnrichFailed
    /\ finished.op.mounted
    /\ finished.op.extracted
    /\ finished.op.wrote = {"resumeText"}
    /\ profile.resumeText = "pdf resume"
    /\ store = finished.op.state

\* C8: after a start answer that parses, the page shows the question, holds
\* the session identifier, has no blocking error and enables navigation to
\* the results; and navigation to the results is enabled whenever the page
\* holds a session identifier.
C8_AvatarNeverBlocks ==
    /\ (finished.op.kind = "start" /\ finished.outcome = "ok" /\ finished.op.mounted)
          => /\ QuestionShown
             /\ interview.interviewId = finished.resp.data.interview_id
             /\ interview.error = Null
             /\ ResultsNavEnabled
    /\ (route = "interview" /\ interview.interviewId /= NoId) => ResultsNavEnabled

\* C9: whenever a backend call answered with a non-success status ends an
\* operation, the message handed to the page is the body text when the body
\* is non-empty and the generic status-code message otherwise.
C9_UniformErrorFallback ==
    finished.resp.kind = "http"
        => /\ finished.err = (IF finished.resp.body /= "" THEN finished.resp.body
                              ELSE RequestFailedMsg(finished.resp.status))
           /\ ~Abandoned(finished.op) =>
                 finished.err \in {profile.error, interview.error, results.error}

\* C10 as stated: when a load ends with its summary fetch resolved and its
\* feedback fetch rejected, the summary of that interviewId is displayed.
FeedbackAloneFailed ==
    /\ finished.op.kind = "load" /\ finished.outcome = "failed"
    /\ finished.op.summary = "ok" /\ finished.op.feedback = "fail"
    /\ ~Abandoned(finished.op)
C10_FeedbackOptional ==
    FeedbackAloneFailed => (SummaryShown /\ results.summary = finished.op.param)

\* C10 amended: when a load ends with its summary fetch resolved and its
\* feedback fetch rejected, the load has stored neither its summary nor any
\* feedback: the page shows the error, is not loading, and displays a summary
\* only if one was displayed before.
C10_FeedbackRequired ==
    FeedbackAloneFailed
        => /\ finished.op.wrote = {}
           /\ ResultsErrorShown
           /\ ~results.loading
C10_Witness ==
    /\ FeedbackAloneFailed
    /\ ~SummaryShown
    /\ results.error = "boom"

\* C11: an invocation of handleStartInterview that passes the guard puts
\* exactly one request in flight, to /api/interview/start, and the answer ends
\* it without another request; when the answer parses, the page's interviewId,
\* question, conversationUrl and tavusError are exactly the answer's values
\* (null where the answer has none), whatever session the page held before.
StartSucceeded ==
    finished.op.kind = "start" /\ finished.outcome = "ok" /\ finished.op.mounted
C11_StartReplacesSession ==
    /\ [](StartSucceeded
            => /\ interview.interviewId = finished.resp.data.interview_id
               /\ interview.question = finished.resp.data.question
               /\ interview.conversationUrl = finished.resp.data.conversation_url
               /\ interview.tavusError = finished.resp.data.tavus_error)
    /\ [][ /\ (HandleStartInterview /\ ~BadIdentity(store.user))
               => /\ Len(ops') = Len(ops) + 1
                  /\ SubSeq(ops', 1, Len(ops)) = ops
                  /\ Request(ops'[Len(ops')]).path = "/api/interview/start"
            /\ \A i \in DOMAIN ops : \A resp \in Answers(StartAnswers) :
                  StartResponse(i, resp) => ops' = Remove(ops, i)
          ]_vars
C11_Witness ==
    /\ StartSucceeded
    /\ "conversationUrl" \in finished.op.wrote
    /\ finished.resp.data.conversation_url = Null
    /\ interview.conversationUrl = Null
    /\ finished.resp.data.tavus_error = "provider down"

\* C12: the list derived from a delimited field (split at the field's
\* delimiter, trim, drop empty entries) is a fixed point: joined with the
\* delimiter and derived again it is the same list; and every derived entry is
\* non-empty and neither starts nor ends with whitespace.
Trimmed(e) == e /= <<>> /\ Head(e) \notin WhiteSpace /\ e[Len(e)] \notin WhiteSpace
C12_DeriveIdempotent ==
    /\ derive.pc \in {"derived", "rederived"}
          => \A i \in DOMAIN derive.list : Trimmed(derive.list[i])
    /\ derive.pc = "rederived" => derive.again = derive.list
C12_Witness ==
    /\ derive.pc = "rederived"
    /\ derive.field = "tech_stack"
    /\ derive.text = << "a", ",", " ", "b" >>
    /\ derive.list = << << "a" >>, << "b" >> >>
    /\ derive.again = derive.list

\* C13: the pair (conversationUrl, tavusError) held by the interview page is
\* always the initial pair of nulls or the pair of one start answer: a step
\* that changes the pair either resets it to the nulls or is the arrival of a
\* parsed start answer and sets it to that answer's two values.
MediaPair(iv) == << iv.conversationUrl, iv.tavusError >>
C13_MediaFieldsReadTogether ==
    [][ MediaPair(interview') /= MediaPair(interview)
          => \/ MediaPair(interview') = MediaPair(InterviewInit)
             \/ /\ finished'.op.kind = "start" /\ finished'.outcome = "ok"
                /\ MediaPair(interview') = << finished'.resp.data.conversation_url,
                                              finished'.resp.data.tavus_error >>
      ]_vars

\* C14: when an enrich, start or results-load operation of a page instance
\* that is still mounted ends in a transport or non-success-status failure,
\* the state reached shows that page's error banner with the failure message;
\* and a parsed start answer carrying a tavus_error leaves the blocking error
\* unset and no banner shown.
C14_BlockingFailuresShown ==
    /\ (finished.outcome \in {"failed", "extraction_failed"} /\ finished.op.mounted)
          => CASE finished.op.kind = "enrich" ->
                      ProfileErrorShown /\ profile.error = finished.err
               [] finished.op.kind = "start" ->
                      InterviewErrorShown /\ interview.error = finished.err
               [] finished.op.kind = "load" ->
                      ResultsErrorShown /\ results.error = finished.err
    /\ (StartSucceeded /\ finished.resp.data.tavus_error /= Null)
          => (interview.error = Null /\ ~InterviewErrorShown)

\* C15: the arrival of a successful enrich answer sets the store's
\* resumeSummary and skills to the answer's and leaves every other field of
\* the store, the user among them, as it was immediately before the arrival.
C15_EnrichOverwritesArtifactOnly ==
    [][ \A i \in DOMAIN ops : \A resp \in Answers(Artifacts) :
          (EnrichResponse(i, resp) /\ resp.kind = "ok")
            => store' = [store EXCEPT !.resumeSummary = resp.data.resume_summary,
                                      !.skills = resp.data.skills]
      ]_vars

\* C16: provided every issued call settles, a page that is loading is
\* eventually not loading; the step that ends an operation of a mounted page,
\* by success or by any failure, leaves that page not loading (its trigger is
\* enabled); a failed operation is removed, not re-issued; and an operation is
\* put in flight only by a user's submit, start or navigation to results.
Ended16 == finished.outcome \in {"ok", "failed", "extraction_failed"} /\ finished.op.mounted
UserTrigger ==
    \/ HandleSubmit
    \/ HandleStartInterview
    \/ ViewResults
    \/ \E id \in Ids : Navigate("results", id)
C16_RecoverableByReinvocation ==
    /\ profile.loading ~> ~profile.loading
    /\ interview.loading ~> ~interview.loading
    /\ results.loading ~> ~results.loading
    /\ [](Ended16 => /\ (finished.op.kind = "enrich" => ~profile.loading)
                     /\ (finished.op.kind = "start" => ~interview.loading)
                     /\ (finished.op.kind = "load" => ~results.loading))
    /\ [][ /\ (Len(ops') > Len(ops)) => UserTrigger
           /\ (finished'.outcome \in {"failed", "extraction_failed"})
                 => (Len(ops') = Len(ops) - 1)
      ]_vars
C16_Witness ==
    /\ finished.outcome = "failed"
    /\ finished.op.kind = "start"
    /\ finished.op.mounted
    /\ route = "interview"
    /\ ~interview.loading
    /\ ENABLED HandleStartInterview

====
